---- MODULE Spec2Model ----
(***************************************************************************)
(* State-machine model of deacsm's background worker (src/worker.py):      *)
(* one WorkerThread.run() executing the login, fulfill or decrypt          *)
(* workflow.  Every call the workflow makes on a collaborator (libadobe,   *)
(* libadobeFulfill, libpdf, ineptepub) or on the operating system is one   *)
(* step whose outcome (a return value or a raised exception) is drawn      *)
(* nondeterministically.  Signals are recorded in emission order.          *)
(***************************************************************************)
EXTENDS Integers, Sequences, FiniteSets, TLC

VARIABLES
    task_type,          \* WorkerThread.task_type
    decryptBook,        \* module global: "available" or "None" (import failed)
    pc,                 \* position of run() in the source
    emitted,            \* progress / finished signals, in emission order
    calls,              \* collaborator and file operations invoked, in order
    exc,                \* exception in flight ("none" when there is none)
    raised,             \* some call of this run has raised
    escaped,            \* an exception left run()
    cwd,                \* process working directory
    old_cwd,            \* local old_cwd of _login_adobe / _fulfill_acsm
    files,              \* files of the configuration directory: name -> content
    reply,              \* adobe_fulfill_response (parsed replyData)
    download_url,       \* local download_url
    license_token_node, \* local license_token_node
    rights_xml_str,     \* local rights_xml_str
    book_name,          \* local book_name
    ret,                \* local ret of the download
    book_content,       \* local book_content (the bytes read)
    filetype,           \* local filetype
    patch_ret,          \* local ret of patch_drm_into_pdf
    userkey,            \* local userkey of _decrypt_epub
    result,             \* local result of decryptBook
    gui_at,             \* MainWindow: "init" until __init__ has run, then "running"
    key_file,           \* MainWindow.key_file
    process_btn,        \* MainWindow.process_btn.isEnabled()
    workers,            \* the WorkerThreads MainWindow has started, in start order
    signals,            \* finished signals queued for the main thread
    dialogs,            \* the modal dialogs open on the main thread, innermost last
    config_dir,         \* the files in ~/.deacsm, oldest mtime first
    start_dir           \* the files in the directory the process started in

ctl   == <<task_type, decryptBook, pc, emitted, calls, exc, raised, escaped>>
env   == <<cwd, old_cwd, files>>
fvars == <<reply, download_url, license_token_node, rights_xml_str, book_name,
           ret, book_content, filetype, patch_ret>>
dvars == <<userkey, result>>
gvars == <<gui_at, key_file, process_btn, workers, signals, dialogs,
           config_dir, start_dir>>
vars  == <<ctl, env, fvars, dvars, gvars>>

----------------------------------------------------------------------------
(* Bounds of the model *)

\* longest content of a downloaded file, in bytes
MaxContentLen == 4
\* largest result code drawn for decryptBook (the smallest is -1)
MaxResult == 4

(* Program constants *)

\* f.read(10)
ReadSize == 10
\* if ret != 200
HttpOk == 200

----------------------------------------------------------------------------
(* Values *)

\* Python's None, for the string-valued locals
None == "None"

TaskTypes == {"login", "fulfill", "decrypt"}

\* the byte values that matter to the signatures b"PK" and b"%PDF"
Bytes == {"P", "K", "%", "D", "F"}

RECURSIVE SeqsUpTo(_, _)
SeqsUpTo(S, n) ==
    IF n = 0 THEN {<<>>}
    ELSE LET shorter == SeqsUpTo(S, n - 1)
         IN  shorter \cup {Append(s, b) : s \in {t \in shorter : Len(t) = n - 1}, b \in S}

\* every content of at most MaxContentLen bytes
Contents == SeqsUpTo(Bytes, MaxContentLen)

\* the contents a download of the full workflow draws from: both signatures,
\* signatures cut short, signatures followed by more bytes, and neither
DownloadContents ==
    { <<>>, <<"P">>, <<"P", "K">>, <<"P", "K", "D", "F">>, <<"K", "P">>,
      <<"%", "P", "D">>, <<"%", "P", "D", "F">>, <<"%", "P", "D", "F", "K">>,
      <<"F", "%", "P", "D", "F">> }

\* status codes sendHTTPRequest_DL2FILE may return
Statuses == {HttpOk, 404, 500}

DecryptResults == (0 - 1) .. MaxResult

\* directories
StartDir == "start"
ConfigDir == "~/.deacsm"

\* titles a reply may carry
Titles == {"T"}

\* shapes of the reply: each looked-up element is absent, present without
\* text ("empty") or present with text
Replies ==
    [wellformed : {TRUE},
     src        : {"absent", "empty", "url"},
     token      : {"absent", "present"},
     metadata   : {"absent", "notitle", "emptytitle"} \cup Titles]
    \cup
    [wellformed : {FALSE}, src : {"absent"}, token : {"absent"}, metadata : {"absent"}]

NoReply == [wellformed |-> FALSE, src |-> "absent", token |-> "absent", metadata |-> "absent"]

\* rights documents: built or None, with or without licenseToken/resource
NoRights == [built |-> FALSE, resource |-> None]
RightsDocs == [built : {TRUE}, resource : {None, "urn:uuid:res"}]

\* zip entries of a downloaded archive
Entry(name, data) == [name |-> name, data |-> data]
RightsEntryName == "META-INF/rights.xml"
Archives ==
    { <<>>,
      <<Entry("mimetype", "application/epub+zip")>>,
      <<Entry("mimetype", "application/epub+zip"), Entry(RightsEntryName, "old")>> }

\* a file: its leading bytes, its zip entries, the DRM material patched in
File(bytes, entries, drm) == [bytes |-> bytes, entries |-> entries, drm |-> drm]

NoFiles == [n \in {} |-> File(<<>>, <<>>, NoRights)]

----------------------------------------------------------------------------
(* Signals *)

Msg(text, arg, code) == [text |-> text, arg |-> arg, code |-> code]
Text(text) == Msg(text, "", 0)
TextS(text, s) == Msg(text, s, 0)
TextN(text, n) == Msg(text, "", n)

Progress(m) == [sig |-> "progress", ok |-> TRUE, msg |-> m]
Finished(ok, m) == [sig |-> "finished", ok |-> ok, msg |-> m]

Emit(n) == emitted' = Append(emitted, n)
\* two emissions in the wrong order
Emit2Swapped(n1, n2) == emitted' = Append(Append(emitted, n2), n1)
Emit2(n1, n2) == emitted' = Append(Append(emitted, n1), n2)
Call(c) == calls' = Append(calls, c)

----------------------------------------------------------------------------
(* Construction: WorkerThread.__init__, before start() *)

\* no MainWindow: the worker is run on its own
NoGui ==
    /\ gui_at = "none"
    /\ key_file = None
    /\ process_btn = TRUE
    /\ workers = <<>>
    /\ signals = <<>>
    /\ dialogs = <<>>
    /\ config_dir = <<>>
    /\ start_dir = <<>>

Init ==
    /\ NoGui
    /\ task_type \in TaskTypes
    /\ decryptBook \in {"available", None}
    /\ pc = "start"
    /\ emitted = <<>>
    /\ calls = <<>>
    /\ exc = "none"
    /\ raised = FALSE
    /\ escaped = FALSE
    /\ cwd = StartDir
    /\ old_cwd = None
    /\ files = NoFiles
    /\ reply = NoReply
    /\ download_url = None
    /\ license_token_node = None
    /\ rights_xml_str = NoRights
    /\ book_name = None
    /\ ret = 0
    /\ book_content = <<>>
    /\ filetype = None
    /\ patch_ret = FALSE
    /\ userkey = None
    /\ result = 0

\* a call raises exception e and control goes to the handler at pc h
Raise(e, h) ==
    /\ exc' = e
    /\ raised' = TRUE
    /\ pc' = h

\* control moves on to pc p with no exception raised
Goto(p) ==
    /\ pc' = p
    /\ UNCHANGED <<exc, raised>>

----------------------------------------------------------------------------
(* WorkerThread.run *)

\* the dispatch on task_type
Run ==
    /\ pc = "start"
    /\ pc' = CASE task_type = "login"   -> "l_mkdir"
               [] task_type = "fulfill" -> "f_getcwd"
               [] task_type = "decrypt" -> "d_check"
               [] OTHER                 -> "done"
    /\ UNCHANGED <<gvars, task_type, decryptBook, emitted, calls, exc, raised, escaped,
                   env, fvars, dvars>>

\* run() without its handler: the exception leaves run()
RunExceptPropagates ==
    /\ pc = "run_except"
    /\ escaped' = TRUE
    /\ pc' = "done"
    /\ UNCHANGED <<gvars, task_type, decryptBook, emitted, calls, exc, raised, env, fvars, dvars>>

\* except Exception as e: self.finished.emit(False, f"Error: {str(e)}")
RunExcept ==
    /\ pc = "run_except"
    /\ Emit(Finished(FALSE, TextS("Error: ", exc)))
    /\ exc' = "none"
    /\ pc' = "done"
    /\ UNCHANGED <<gvars, task_type, decryptBook, calls, raised, escaped, env, fvars, dvars>>

----------------------------------------------------------------------------
(* WorkerThread._decrypt_epub *)

\* the mapping with "result <= 0" for the success test
DecryptOutcomeNonPositive(r) ==
    IF r <= 0 THEN Finished(TRUE, TextS("Successfully decrypted to: ", "output_path"))
    ELSE IF r = 1 THEN Finished(FALSE, Text("EPUB is DRM-free"))
    ELSE IF r = 2 THEN Finished(FALSE, Text("Failed to decrypt: wrong key"))
    ELSE Finished(FALSE, TextN("Decryption failed with error code ", r))

\* the mapping of decryptBook's result code to the terminal signal
DecryptOutcome(r) ==
    IF r = 0 THEN Finished(TRUE, TextS("Successfully decrypted to: ", "output_path"))
    ELSE IF r = 1 THEN Finished(FALSE, Text("EPUB is DRM-free"))
    ELSE IF r = 2 THEN Finished(FALSE, Text("Failed to decrypt: wrong key"))
    ELSE Finished(FALSE, TextN("Decryption failed with error code ", r))

\* if decryptBook is None: ... return
DecryptCheck ==
    /\ pc = "d_check"
    /\ IF decryptBook = None
       THEN /\ Emit(Finished(FALSE, Text("ineptepub module not available")))
            /\ pc' = "done"
       ELSE /\ pc' = "d_readkey"
            /\ UNCHANGED emitted
    /\ UNCHANGED <<gvars, task_type, decryptBook, calls, exc, raised, escaped, env, fvars, dvars>>

\* the key read without the return in its handler
DecryptReadKeyNoReturn ==
    /\ pc = "d_readkey"
    /\ Call("read_key")
    /\ \E ok \in BOOLEAN :
          IF ok
          THEN /\ userkey' = "key"
               /\ Emit(Progress(Text("Reading key file...")))
               /\ Goto("d_decrypt")
          ELSE /\ Emit2(Progress(Text("Reading key file...")),
                        Finished(FALSE, TextS("Failed to read key file: ", "OSError")))
               /\ pc' = "d_decrypt"
               /\ raised' = TRUE
               /\ UNCHANGED <<exc, userkey>>
    /\ UNCHANGED <<gvars, task_type, decryptBook, escaped, env, fvars, result>>

\* with open(key_path, 'rb') as f: userkey = f.read()
DecryptReadKey ==
    /\ pc = "d_readkey"
    /\ Call("read_key")
    /\ \E ok \in BOOLEAN :
          IF ok
          THEN /\ userkey' = "key"
               /\ Emit(Progress(Text("Reading key file...")))
               /\ Goto("d_decrypt")
          ELSE /\ Emit2(Progress(Text("Reading key file...")),
                        Finished(FALSE, TextS("Failed to read key file: ", "OSError")))
               /\ pc' = "done"
               /\ raised' = TRUE
               /\ UNCHANGED <<exc, userkey>>
    /\ UNCHANGED <<gvars, task_type, decryptBook, escaped, env, fvars, result>>

\* result = decryptBook(userkey, str(epub_path), str(output_path)) and the mapping
DecryptBook ==
    /\ pc = "d_decrypt"
    /\ Call("decryptBook")
    /\ \/ \E r \in DecryptResults :
             /\ result' = r
             /\ Emit2(Progress(Text("Decrypting EPUB...")), DecryptOutcome(r))
             /\ UNCHANGED raised
       \/ /\ Emit2(Progress(Text("Decrypting EPUB...")),
                   Finished(FALSE, TextS("Decryption error: ", "decryptBook raised")))
          /\ raised' = TRUE
          /\ UNCHANGED result
    /\ pc' = "done"
    /\ UNCHANGED <<gvars, task_type, decryptBook, exc, escaped, env, fvars, userkey>>

----------------------------------------------------------------------------
(* WorkerThread._login_adobe *)

\* a file written into the configuration directory
WriteFile(name, content) ==
    [n \in DOMAIN files \cup {name} |-> IF n = name THEN content ELSE files[n]]

\* key_filename = "adobekey.der"
KeyFilename == "adobekey.der"

\* progress.emit("Creating device files..."); config_dir.mkdir(exist_ok=True)
LoginMkdir ==
    /\ pc = "l_mkdir"
    /\ Emit(Progress(Text("Creating device files...")))
    /\ Call("mkdir")
    /\ \/ Goto("l_getcwd")
       \/ Raise("mkdir raised", "run_except")
    /\ UNCHANGED <<gvars, task_type, decryptBook, escaped, env, fvars, dvars>>

\* old_cwd = os.getcwd()
LoginGetcwd ==
    /\ pc = "l_getcwd"
    /\ \/ /\ old_cwd' = cwd
          /\ Goto("l_chdir")
       \/ /\ Raise("getcwd raised", "run_except")
          /\ UNCHANGED old_cwd
    /\ UNCHANGED <<gvars, task_type, decryptBook, emitted, calls, escaped, cwd, files, fvars, dvars>>

\* try: os.chdir(config_dir)
LoginChdir ==
    /\ pc = "l_chdir"
    /\ Call("chdir")
    /\ \/ /\ cwd' = ConfigDir
          /\ Goto("l_update")
       \/ /\ Raise("chdir raised", "l_finally")
          /\ UNCHANGED cwd
    /\ UNCHANGED <<gvars, task_type, decryptBook, emitted, escaped, old_cwd, files, fvars, dvars>>

\* update_account_path(str(config_dir)); createDeviceKeyFile()
LoginDeviceKey ==
    /\ pc = "l_update"
    /\ \/ /\ calls' = calls \o <<"update_account_path", "createDeviceKeyFile">>
          /\ Goto("l_devfile")
       \/ /\ Call("update_account_path")
          /\ Raise("update_account_path raised", "l_finally")
       \/ /\ calls' = calls \o <<"update_account_path", "createDeviceKeyFile">>
          /\ Raise("createDeviceKeyFile raised", "l_finally")
    /\ UNCHANGED <<gvars, task_type, decryptBook, emitted, escaped, env, fvars, dvars>>

\* one provisioning step of the form
\*   success[, resp] = step(...); if not success: finished.emit(False, fail); return
\* followed by the progress message of the next step
LoginStep(at, step, fail, next, announce) ==
    /\ pc = at
    /\ Call(step)
    /\ \/ /\ Emit(Progress(Text(announce)))             \* success
          /\ Goto(next)
       \/ /\ Emit(Finished(FALSE, fail))                 \* not success: return
          /\ Goto("l_finally")
       \/ /\ Raise(step \o " raised", "l_finally")
          /\ UNCHANGED emitted
    /\ UNCHANGED <<gvars, task_type, decryptBook, escaped, env, fvars, dvars>>

\* success = createDeviceFile(True, version)
LoginCreateDeviceFile ==
    LoginStep("l_devfile", "createDeviceFile", Text("Failed to create device file"),
              "l_user", "Creating user account...")

\* success, resp = createUser(version, None)
LoginCreateUser ==
    LoginStep("l_user", "createUser", TextS("Failed to create user: ", "resp"),
              "l_signin", "Signing in...")

\* success, resp = signIn("AdobeID", email, password)
LoginSignIn ==
    LoginStep("l_signin", "signIn", TextS("Failed to sign in: ", "resp"),
              "l_activate", "Activating device...")

\* success, resp = activateDevice(version)
LoginActivateDevice ==
    LoginStep("l_activate", "activateDevice", TextS("Failed to activate device: ", "resp"),
              "l_export", "Exporting keys...")

\* export_path = exportAccountEncryptionKeyDER("adobekey.der"); finished.emit(True, ...)
\* The value returned is bound to export_path and never read: the terminal is
\* the same whether the collaborator reports the key written or not.
LoginExportKey ==
    /\ pc = "l_export"
    /\ Call("exportAccountEncryptionKeyDER")
    /\ \/ \E exported \in BOOLEAN :
             /\ files' = IF exported
                         THEN WriteFile(KeyFilename, File(<<>>, <<>>, NoRights))
                         ELSE files
             /\ Emit(Finished(TRUE, TextS("Successfully authorized as ", "email")))
             /\ Goto("l_finally")
       \/ /\ Raise("exportAccountEncryptionKeyDER raised", "l_finally")
          /\ UNCHANGED <<emitted, files>>
    /\ UNCHANGED <<gvars, task_type, decryptBook, escaped, cwd, old_cwd, fvars, dvars>>

\* finally: os.chdir(old_cwd), shared by _login_adobe and _fulfill_acsm: a
\* failing chdir replaces the exception in flight; an exception in flight
\* after the finally block goes on to run()'s handler
FinallyChdir(at) ==
    /\ pc = at
    /\ Call("chdir_back")
    /\ \/ /\ cwd' = old_cwd
          /\ pc' = IF exc = "none" THEN "done" ELSE "run_except"
          /\ UNCHANGED <<exc, raised>>
       \/ /\ Raise("chdir raised", "run_except")
          /\ UNCHANGED cwd
    /\ UNCHANGED <<gvars, task_type, decryptBook, emitted, escaped, old_cwd, files, fvars, dvars>>

LoginFinally == FinallyChdir("l_finally")

----------------------------------------------------------------------------
(* WorkerThread._fulfill_acsm: the pure parts *)

\* adobe_fulfill_response.find(".../src").text raises when the element is
\* absent; find(".../licenseToken") returns None without raising
ParseFails(r) == r.src = "absent"
DownloadUrl(r) == IF r.src = "url" THEN "http://download" ELSE None
LicenseTokenNode(r) == IF r.token = "present" THEN "licenseToken" ELSE None

\* metadata_node.find(title).text, with any exception giving "Book"; a title
\* element without text gives None and raises nothing
BookName(r) ==
    IF r.metadata \in {"absent", "notitle"} THEN "Book"
    ELSE IF r.metadata = "emptytitle" THEN None
    ELSE r.metadata

\* bytes.startswith
StartsWith(b, prefix) ==
    /\ Len(b) >= Len(prefix)
    /\ SubSeq(b, 1, Len(prefix)) = prefix

\* f.read(10)
ReadPrefix(bytes) == SubSeq(bytes, 1, IF Len(bytes) < ReadSize THEN Len(bytes) ELSE ReadSize)

\* the file type chosen from the first byte of each signature only
ClassifyFirstByte(content) ==
    IF StartsWith(content, <<"P">>) THEN ".epub"
    ELSE IF StartsWith(content, <<"%">>) THEN ".pdf"
    ELSE ".bin"

\* the file type chosen from the bytes read
Classify(content) ==
    IF StartsWith(content, <<"P", "K">>) THEN ".epub"
    ELSE IF StartsWith(content, <<"%", "P", "D", "F">>) THEN ".pdf"
    ELSE ".bin"

\* filename_tmp = book_name + ".tmp"; filename = book_name + filetype
FilenameTmp == book_name \o ".tmp"
Filename == book_name \o filetype
TmpCopy == "tmp_" \o Filename

\* shutil.move / os.rename inside the configuration directory
MoveFile(src, dst) ==
    [n \in (DOMAIN files \ {src}) \cup {dst} |-> IF n = dst THEN files[src] ELSE files[n]]

\* os.remove
RemoveFile(name) == [n \in DOMAIN files \ {name} |-> files[n]]

\* the archive opened in mode "w": the entry replaces the archive
ZipRewrite(f, data) ==
    File(f.bytes, <<Entry(RightsEntryName, data)>>, f.drm)

\* with zf.ZipFile(filename, "a") as zpf: zpf.writestr("META-INF/rights.xml", rights_xml_str)
ZipAppend(f, data) ==
    File(f.bytes, Append(f.entries, Entry(RightsEntryName, data)), f.drm)

\* a test that takes only server errors for failures
DownloadFailedServerOnly(status) == status >= 500

\* if ret != 200
DownloadFailed(status) == status # HttpOk

\* what buildRights may return for a token node: a rights document or None;
\* no document can be built from a missing token
BuildRightsResults(token) ==
    IF token = None THEN {NoRights} ELSE RightsDocs \cup {NoRights}

----------------------------------------------------------------------------
(* WorkerThread._fulfill_acsm: the steps *)

\* progress.emit("Reading ACSM file..."); old_cwd = os.getcwd()   (before the try)
FulfillGetcwd ==
    /\ pc = "f_getcwd"
    /\ Emit(Progress(Text("Reading ACSM file...")))
    /\ \/ /\ old_cwd' = cwd
          /\ Goto("f_chdir")
       \/ /\ Raise("getcwd raised", "run_except")
          /\ UNCHANGED old_cwd
    /\ UNCHANGED <<gvars, task_type, decryptBook, calls, escaped, cwd, files, fvars, dvars>>

\* try: os.chdir(config_dir)
FulfillChdir ==
    /\ pc = "f_chdir"
    /\ Call("chdir")
    /\ \/ /\ cwd' = ConfigDir
          /\ Goto("f_update")
       \/ /\ Raise("chdir raised", "f_except")
          /\ UNCHANGED cwd
    /\ UNCHANGED <<gvars, task_type, decryptBook, emitted, escaped, old_cwd, files, fvars, dvars>>

\* update_account_path(str(config_dir))
FulfillUpdatePath ==
    /\ pc = "f_update"
    /\ Call("update_account_path")
    /\ \/ Goto("f_fulfill")
       \/ Raise("update_account_path raised", "f_except")
    /\ UNCHANGED <<gvars, task_type, decryptBook, emitted, escaped, env, fvars, dvars>>

\* success, replyData = fulfill(str(acsm_path)); if not success: ... return
FulfillRequest ==
    /\ pc = "f_fulfill"
    /\ Call("fulfill")
    /\ \/ \E r \in Replies :                                       \* (True, replyData)
             /\ reply' = r
             /\ Emit(Progress(Text("Fulfilling book...")))
             /\ Goto("f_parse")
       \/ /\ Emit2(Progress(Text("Fulfilling book...")),           \* (False, error)
                   Finished(FALSE, TextS("Fulfillment failed: ", "replyData")))
          /\ Goto("f_finally")
          /\ UNCHANGED reply
       \/ /\ Emit(Progress(Text("Fulfilling book...")))
          /\ Raise("fulfill raised", "f_except")
          /\ UNCHANGED reply
    /\ UNCHANGED <<gvars, task_type, decryptBook, escaped, env, download_url, license_token_node,
                   rights_xml_str, book_name, ret, book_content, filetype, patch_ret, dvars>>

\* etree.fromstring(replyData) and the try/except around the two lookups
FulfillParse ==
    /\ pc = "f_parse"
    /\ IF ~reply.wellformed
       THEN /\ Raise("XMLSyntaxError", "f_except")
            /\ UNCHANGED <<emitted, download_url, license_token_node>>
       ELSE IF ParseFails(reply)
       THEN /\ Emit(Finished(FALSE, Text("Failed to parse fulfillment response")))
            /\ Goto("f_finally")
            /\ UNCHANGED <<download_url, license_token_node>>
       ELSE /\ download_url' = DownloadUrl(reply)
            /\ license_token_node' = LicenseTokenNode(reply)
            /\ Goto("f_rights")
            /\ UNCHANGED emitted
    /\ UNCHANGED <<gvars, task_type, decryptBook, calls, escaped, env, reply, rights_xml_str,
                   book_name, ret, book_content, filetype, patch_ret, dvars>>

\* the rights builder without the test of its result
FulfillBuildRightsUnchecked ==
    /\ pc = "f_rights"
    /\ Call("buildRights")
    /\ \/ \E doc \in BuildRightsResults(license_token_node) :
             /\ rights_xml_str' = doc
             /\ Goto("f_title")
             /\ UNCHANGED emitted
       \/ /\ Raise("buildRights raised", "f_except")
          /\ UNCHANGED <<emitted, rights_xml_str>>
    /\ UNCHANGED <<gvars, task_type, decryptBook, escaped, env, reply, download_url,
                   license_token_node, book_name, ret, book_content, filetype,
                   patch_ret, dvars>>

\* rights_xml_str = buildRights(license_token_node); if rights_xml_str is None: ... return
FulfillBuildRights ==
    /\ pc = "f_rights"
    /\ Call("buildRights")
    /\ \/ \E doc \in BuildRightsResults(license_token_node) :
             /\ rights_xml_str' = doc
             /\ IF doc = NoRights
                THEN /\ Emit(Finished(FALSE, Text("Failed to build rights.xml")))
                     /\ Goto("f_finally")
                ELSE /\ Goto("f_title")
                     /\ UNCHANGED emitted
       \/ /\ Raise("buildRights raised", "f_except")
          /\ UNCHANGED <<emitted, rights_xml_str>>
    /\ UNCHANGED <<gvars, task_type, decryptBook, escaped, env, reply, download_url,
                   license_token_node, book_name, ret, book_content, filetype,
                   patch_ret, dvars>>

\* the try/except that gets the book name
FulfillTitle ==
    /\ pc = "f_title"
    /\ book_name' = BookName(reply)
    /\ Goto("f_download")
    /\ UNCHANGED <<gvars, task_type, decryptBook, emitted, calls, escaped, env, reply,
                   download_url, license_token_node, rights_xml_str, ret, book_content,
                   filetype, patch_ret, dvars>>

\* progress.emit("Downloading book..."); filename_tmp = book_name + ".tmp";
\* ret = sendHTTPRequest_DL2FILE(download_url, filename_tmp); if ret != 200: ... return
FulfillDownload ==
    /\ pc = "f_download"
    /\ IF book_name = None
       THEN /\ Emit(Progress(Text("Downloading book...")))        \* None + ".tmp"
            /\ Raise("TypeError", "f_except")
            /\ UNCHANGED <<calls, files, ret>>
       ELSE /\ Call("download")
            /\ \/ \E status \in Statuses, bytes \in DownloadContents :
                  \E entries \in IF StartsWith(bytes, <<"P", "K">>) THEN Archives ELSE {<<>>} :
                     /\ ret' = status
                     \* the collaborator writes the file on 200; on another
                     \* status it writes nothing or what it received
                     /\ \/ files' = WriteFile(FilenameTmp, File(bytes, entries, NoRights))
                        \/ status # HttpOk /\ UNCHANGED files
                     /\ IF DownloadFailed(status)
                        THEN /\ Emit2(Progress(Text("Downloading book...")),
                                      Finished(FALSE, TextN("Download failed with error ", status)))
                             /\ Goto("f_finally")
                        ELSE /\ Emit(Progress(Text("Downloading book...")))
                             /\ Goto("f_read")
               \/ /\ Emit(Progress(Text("Downloading book...")))
                  /\ Raise("download raised", "f_except")
                  /\ UNCHANGED <<files, ret>>
    /\ UNCHANGED <<gvars, task_type, decryptBook, escaped, cwd, old_cwd, reply, download_url,
                   license_token_node, rights_xml_str, book_name, book_content, filetype,
                   patch_ret, dvars>>

\* with open(filename_tmp, "rb") as f: book_content = f.read(10)
FulfillRead ==
    /\ pc = "f_read"
    /\ Call("read")
    /\ \/ /\ FilenameTmp \in DOMAIN files
          /\ book_content' = ReadPrefix(files[FilenameTmp].bytes)
          /\ Goto("f_classify")
       \/ /\ Raise("open raised", "f_except")
          /\ UNCHANGED book_content
    /\ UNCHANGED <<gvars, task_type, decryptBook, emitted, escaped, env, reply, download_url,
                   license_token_node, rights_xml_str, book_name, ret, filetype,
                   patch_ret, dvars>>

\* the if/elif/else on book_content.startswith
FulfillClassify ==
    /\ pc = "f_classify"
    /\ Call("classify")
    /\ filetype' = Classify(book_content)
    /\ Goto("f_move")
    /\ UNCHANGED <<gvars, task_type, decryptBook, emitted, escaped, env, reply, download_url,
                   license_token_node, rights_xml_str, book_name, ret, book_content,
                   patch_ret, dvars>>

\* a dispatch whose last branch is taken for every type but .pdf
BranchFallThrough(ft) ==
    CASE ft = ".pdf" -> "f_resource"
      [] OTHER       -> "f_zip"

\* if filetype == ".epub": ... elif filetype == ".pdf": ... else: ...
Branch(ft) ==
    CASE ft = ".epub" -> "f_zip"
      [] ft = ".pdf"  -> "f_resource"
      [] OTHER        -> "f_unsupported"

\* filename = book_name + filetype; shutil.move(filename_tmp, filename), then
\* the dispatch on filetype
FulfillMove ==
    /\ pc = "f_move"
    /\ Call("move")
    /\ \/ /\ FilenameTmp \in DOMAIN files
          /\ files' = MoveFile(FilenameTmp, Filename)
          /\ Goto(Branch(filetype))
       \/ /\ Raise("move raised", "f_except")
          /\ UNCHANGED files
    /\ UNCHANGED <<gvars, task_type, decryptBook, emitted, escaped, cwd, old_cwd, fvars, dvars>>

\* if filetype == ".epub": append the rights entry, report, return
FulfillZip ==
    /\ pc = "f_zip"
    /\ Call("zip_append")
    /\ \/ /\ files' = WriteFile(Filename, ZipAppend(files[Filename], rights_xml_str))
          /\ Emit2(Progress(TextS("File fulfilled: ", Filename)),
                   Finished(TRUE, TextS("Successfully fulfilled: ", Filename)))
          /\ Goto("f_finally")
       \/ /\ Raise("ZipFile raised", "f_except")
          /\ UNCHANGED <<emitted, files>>
    /\ UNCHANGED <<gvars, task_type, decryptBook, escaped, cwd, old_cwd, fvars, dvars>>

\* elif filetype == ".pdf": progress, then
\* resource = etree.fromstring(rights_xml_str).find(licenseToken/resource).text
FulfillResource ==
    /\ pc = "f_resource"
    /\ Emit(Progress(Text("Patching PDF encryption...")))
    /\ IF rights_xml_str.resource = None
       THEN Raise("AttributeError", "f_except")
       ELSE Goto("f_rename")
    /\ UNCHANGED <<gvars, task_type, decryptBook, calls, escaped, env, fvars, dvars>>

\* os.rename(filename, "tmp_" + filename)
FulfillRename ==
    /\ pc = "f_rename"
    /\ Call("rename")
    /\ \/ /\ files' = MoveFile(Filename, TmpCopy)
          /\ Goto("f_patch")
       \/ /\ Raise("rename raised", "f_except")
          /\ UNCHANGED files
    /\ UNCHANGED <<gvars, task_type, decryptBook, emitted, escaped, cwd, old_cwd, fvars, dvars>>

\* ret = patch_drm_into_pdf("tmp_" + filename, rights_xml_str, filename, resource)
FulfillPatch ==
    /\ pc = "f_patch"
    /\ Call("patch")
    /\ \/ /\ patch_ret' = TRUE
          /\ files' = WriteFile(Filename, File(files[TmpCopy].bytes, <<>>, rights_xml_str))
          /\ Goto("f_remove")
       \/ /\ patch_ret' = FALSE
          /\ Goto("f_remove")
          /\ UNCHANGED files
       \/ /\ Raise("patch raised", "f_except")
          /\ UNCHANGED <<files, patch_ret>>
    /\ UNCHANGED <<gvars, task_type, decryptBook, emitted, escaped, cwd, old_cwd, reply,
                   download_url, license_token_node, rights_xml_str, book_name, ret,
                   book_content, filetype, dvars>>

\* os.remove("tmp_" + filename)
FulfillRemove ==
    /\ pc = "f_remove"
    /\ Call("remove")
    /\ \/ /\ files' = RemoveFile(TmpCopy)
          /\ Goto("f_pdf_finish")
       \/ /\ Raise("remove raised", "f_except")
          /\ UNCHANGED files
    /\ UNCHANGED <<gvars, task_type, decryptBook, emitted, escaped, cwd, old_cwd, fvars, dvars>>

\* if ret: finished.emit(True, ...) else: finished.emit(False, ...)
FulfillPdfFinish ==
    /\ pc = "f_pdf_finish"
    /\ Emit(IF patch_ret
            THEN Finished(TRUE, TextS("Successfully fulfilled: ", Filename))
            ELSE Finished(FALSE, TextS("Failed to patch PDF: ", Filename)))
    /\ Goto("f_finally")
    /\ UNCHANGED <<gvars, task_type, decryptBook, calls, escaped, env, fvars, dvars>>

\* else: finished.emit(False, "Unsupported file type")
FulfillUnsupported ==
    /\ pc = "f_unsupported"
    /\ Emit(Finished(FALSE, Text("Unsupported file type")))
    /\ Goto("f_finally")
    /\ UNCHANGED <<gvars, task_type, decryptBook, calls, escaped, env, fvars, dvars>>

\* except Exception as e: self.finished.emit(False, f"Error: {str(e)}")
FulfillExcept ==
    /\ pc = "f_except"
    /\ Emit(Finished(FALSE, TextS("Error: ", exc)))
    /\ exc' = "none"
    /\ pc' = "f_finally"
    /\ UNCHANGED <<gvars, task_type, decryptBook, calls, raised, escaped, env, fvars, dvars>>

\* finally: os.chdir(old_cwd)
FulfillFinally == FinallyChdir("f_finally")

----------------------------------------------------------------------------
(* The run of one worker *)

Login ==
    \/ LoginMkdir \/ LoginGetcwd \/ LoginChdir \/ LoginDeviceKey
    \/ LoginCreateDeviceFile \/ LoginCreateUser \/ LoginSignIn \/ LoginActivateDevice
    \/ LoginExportKey \/ LoginFinally

Fulfill ==
    \/ FulfillGetcwd \/ FulfillChdir \/ FulfillUpdatePath \/ FulfillRequest
    \/ FulfillParse \/ FulfillBuildRights \/ FulfillTitle \/ FulfillDownload
    \/ FulfillRead \/ FulfillClassify \/ FulfillMove \/ FulfillZip
    \/ FulfillResource \/ FulfillRename \/ FulfillPatch \/ FulfillRemove
    \/ FulfillPdfFinish \/ FulfillUnsupported \/ FulfillExcept \/ FulfillFinally

Decrypt == DecryptCheck \/ DecryptReadKey \/ DecryptBook

Next == Run \/ RunExcept \/ Login \/ Fulfill \/ Decrypt

Spec == Init /\ [][Next]_vars

----------------------------------------------------------------------------
(* The content sniffer on every content of at most MaxContentLen bytes: a    *)
(* fulfill run right after a download that returned 200, followed by the     *)
(* read of the file and its classification                                   *)

SniffInit ==
    /\ NoGui
    /\ task_type = "fulfill"
    /\ decryptBook = "available"
    /\ pc = "f_read"
    /\ emitted = <<Progress(Text("Reading ACSM file...")),
                   Progress(Text("Fulfilling book...")),
                   Progress(Text("Downloading book..."))>>
    /\ calls = <<"chdir", "update_account_path", "fulfill", "buildRights", "download">>
    /\ exc = "none"
    /\ raised = FALSE
    /\ escaped = FALSE
    /\ cwd = ConfigDir
    /\ old_cwd = StartDir
    /\ reply \in {r \in Replies : r.wellformed /\ ~ParseFails(r) /\ BookName(r) # None
                                  /\ LicenseTokenNode(r) # None}
    /\ download_url = DownloadUrl(reply)
    /\ license_token_node = LicenseTokenNode(reply)
    /\ rights_xml_str = [built |-> TRUE, resource |-> "urn:uuid:res"]
    /\ book_name = BookName(reply)
    /\ ret = HttpOk
    /\ \E bytes \in Contents : files = [n \in {FilenameTmp} |-> File(bytes, <<>>, NoRights)]
    /\ book_content = <<>>
    /\ filetype = None
    /\ patch_ret = FALSE
    /\ userkey = None
    /\ result = 0

SniffNext == FulfillRead \/ FulfillClassify

SniffSpec == SniffInit /\ [][SniffNext]_vars

----------------------------------------------------------------------------
(* MainWindow (src/main_window.py) and the WorkerThreads it starts.

   The main thread: a button handler or a slot runs up to the first modal
   dialog it opens (LoginDialog.exec_, QFileDialog, QMessageBox); the dialog
   runs a nested event loop, in which further finished signals reach their
   slots, so the open dialogs form a stack and only the innermost one can
   be answered.  The statements after a dialog are the step that answers
   it.  The dialogs being modal, the buttons of the window are clicked only
   when no dialog is open.

   A worker is followed through the statements of run() that touch what the
   threads share: the process working directory, the files of the two
   directories, and the finished signal, which Qt queues for the main
   thread.  What its collaborators answer is drawn at each step, as in
   Spec. *)

MaxWorkers == 2

\* a file name is its stem and its suffix, as pathlib splits it
F(stem, suffix) == [stem |-> stem, suffix |-> suffix]
Name(f) == f.stem \o f.suffix

\* book_name: the title of the reply, "Book" without one
Stems == Titles \cup {"Book"}

KeyFile == F("adobekey", ".der")

\* a file of a directory: its name and its first bytes
Stored(n, bytes) == [stem |-> n.stem, suffix |-> n.suffix, bytes |-> bytes]
Is(e, n) == e.stem = n.stem /\ e.suffix = n.suffix

KeyBytes == <<"K">>
ZipBytes == <<"P", "K">>
PdfBytes == <<"%", "P", "D", "F">>

\* what a download may hold: an archive, a document, neither
GuiContents == {ZipBytes, PdfBytes, <<"P">>}

\* the stems that begin with adobekey
KeyStems == {"adobekey", "adobekey_1"}

\* config_dir.glob("*.epub") and config_dir.glob("adobekey*.der")
IsEpub(f) == f.suffix = ".epub"
IsKey(f) == f.suffix = ".der" /\ f.stem \in KeyStems

\* what ~/.deacsm holds when the application starts
InitialDirs ==
    {<<>>,
     <<Stored(F("adobekey_1", ".der"), KeyBytes)>>,
     <<Stored(F("Old", ".epub"), ZipBytes), Stored(KeyFile, KeyBytes)>>}

\* the file dialog's answers: None is a cancelled dialog
Suffixes == {None, ".acsm", ".epub", ".txt"}

RECURSIVE Reverse(_)
Reverse(s) == IF s = <<>> THEN <<>> ELSE Append(Reverse(Tail(s)), Head(s))

Has(dir, n) == \E k \in 1 .. Len(dir) : Is(dir[k], n)
Without(dir, n) == SelectSeq(dir, LAMBDA e : ~Is(e, n))
BytesOf(dir, n) == dir[CHOOSE k \in 1 .. Len(dir) : Is(dir[k], n)].bytes

\* a file written or rewritten becomes the newest
Write(dir, n, bytes) == Append(Without(dir, n), Stored(n, bytes))

\* a renamed file keeps its modification time and its bytes
Rename(dir, a, b) ==
    LET d == IF a = b THEN dir ELSE Without(dir, b)
    IN  [k \in 1 .. Len(d) |->
            IF Is(d[k], a) THEN Stored(b, d[k].bytes) ELSE d[k]]

\* the orders in which a directory may list the files of s
RECURSIVE Orders(_)
Orders(s) ==
    IF s = <<>> THEN {<<>>}
    ELSE UNION {{<<s[k]>> \o r :
                    r \in Orders(SubSeq(s, 1, k - 1) \o SubSeq(s, k + 1, Len(s)))} :
                k \in 1 .. Len(s)}

\* a relative file name resolves against the process working directory
CwdDir == IF cwd = ConfigDir THEN config_dir ELSE start_dir

SetCwdDir(d) ==
    IF cwd = ConfigDir THEN config_dir' = d /\ UNCHANGED start_dir
                       ELSE start_dir' = d /\ UNCHANGED config_dir

\* list(glob(...)) comes in the directory's order, which is not sorted
key_files == Orders(SelectSeq(config_dir, IsKey))
epub_files == Reverse(SelectSeq(config_dir, IsEpub))

WorkerThread(t, path, from) ==
    [task_type |-> t,
     at        |-> IF t = "decrypt" THEN "decrypt" ELSE "getcwd",
     old_cwd   |-> None,
     path      |-> path,
     book_name |-> None,
     filetype  |-> None,
     ret       |-> FALSE,
     raising   |-> FALSE,
     inside    |-> FALSE,
     chdir_failed |-> FALSE,
     produced  |-> None,
     from      |-> from]

Running(i) == workers[i].at # "done"

\* after os.chdir(config_dir) and before os.chdir(old_cwd)
InConfigDir(i) == workers[i].inside

start(w) ==
    /\ Len(workers) < MaxWorkers
    /\ workers' = Append(workers, w)

GuiIdle == UNCHANGED <<ctl, old_cwd, files, fvars, dvars>>

GuiInit ==
    /\ gui_at = "init"
    /\ key_file = None
    /\ process_btn = TRUE
    /\ workers = <<>>
    /\ signals = <<>>
    /\ dialogs = <<>>
    /\ config_dir \in InitialDirs
    /\ start_dir = <<>>
    /\ task_type = "login"
    /\ decryptBook = None
    /\ pc = "start"
    /\ emitted = <<>>
    /\ calls = <<>>
    /\ exc = "none"
    /\ raised = FALSE
    /\ escaped = FALSE
    /\ cwd = StartDir
    /\ old_cwd = None
    /\ files = NoFiles
    /\ reply = NoReply
    /\ download_url = None
    /\ license_token_node = None
    /\ rights_xml_str = NoRights
    /\ book_name = None
    /\ ret = 0
    /\ book_content = <<>>
    /\ filetype = None
    /\ patch_ret = FALSE
    /\ userkey = None
    /\ result = 0

\* an open modal dialog: what it is, what the handler does when it closes
\* (then), and the handler's locals that it needs for that
Dialog(kind, then, path, from) ==
    [kind |-> kind, then |-> then, path |-> path, from |-> from]

LoginDialog(then) == Dialog("login", then, None, 0)
QMessageBox == Dialog("message", "return", None, 0)

open(d) == dialogs' = Append(dialogs, d)
close == dialogs' = SubSeq(dialogs, 1, Len(dialogs) - 1)
\* the dialog closes and the handler opens its next one
reopen(d) == dialogs' = Append(SubSeq(dialogs, 1, Len(dialogs) - 1), d)

\* authorize_adobe, the statements after an accepted LoginDialog
authorize_adobe ==
    /\ process_btn' = FALSE
    /\ start(WorkerThread("login", None, 0))

\* show_login_dialog up to dialog.exec_()
show_login_dialog(then) == open(LoginDialog(then))

\* check_authorization up to the end, or up to the dialog of its branch
\* without a key; then names what the caller does after it
check_authorization(then) ==
    \E listed \in key_files :
        IF listed # <<>>
        THEN /\ key_file' = Name(listed[1])
             /\ process_btn' = TRUE
             /\ IF then = "message" THEN open(QMessageBox)
                                    ELSE UNCHANGED dialogs
        ELSE /\ UNCHANGED key_file
             /\ process_btn' = FALSE
             /\ show_login_dialog(then)

\* slot of a login worker, up to its first dialog
on_authorization_complete(success) ==
    /\ UNCHANGED workers
    /\ IF success
       THEN check_authorization("message")
       ELSE /\ UNCHANGED <<key_file, process_btn>>
            /\ open(QMessageBox)

\* slot of a decrypt worker, up to its message box
on_process_complete ==
    /\ process_btn' = TRUE
    /\ open(QMessageBox)
    /\ UNCHANGED <<key_file, workers>>

\* slot of a fulfill worker, up to its first dialog
on_acsm_fulfilled(from, success) ==
    /\ UNCHANGED <<key_file, workers>>
    /\ IF ~success \/ epub_files = <<>>
       THEN /\ process_btn' = TRUE
            /\ open(QMessageBox)
       ELSE /\ UNCHANGED process_btn
            /\ open(Dialog("save_fulfilled", "return",
                           Name(epub_files[1]), from))

\* on_acsm_fulfilled after getSaveFileName
on_acsm_fulfilled_saved(d, output_path) ==
    /\ close
    /\ IF ~output_path
       THEN /\ process_btn' = TRUE
            /\ UNCHANGED workers
       ELSE /\ UNCHANGED process_btn
            /\ start(WorkerThread("decrypt", d.path, d.from))

\* process_acsm, which opens no dialog
process_acsm ==
    /\ process_btn' = FALSE
    /\ start(WorkerThread("fulfill", "In.acsm", 0))

\* process_epub after getSaveFileName
process_epub_saved(output_path) ==
    /\ close
    /\ IF ~output_path
       THEN UNCHANGED <<process_btn, workers>>
       ELSE /\ process_btn' = FALSE
            /\ start(WorkerThread("decrypt", "In.epub", 0))

\* process_epub up to getSaveFileName
process_epub ==
    /\ reopen(Dialog("save_epub", "return", "In.epub", 0))
    /\ UNCHANGED <<process_btn, workers>>

\* process_file up to its first dialog
process_file ==
    IF key_file = None THEN open(QMessageBox)
                       ELSE open(Dialog("open", "return", None, 0))

\* process_file after getOpenFileName
process_file_opened(suffix) ==
    IF suffix = None
    THEN close /\ UNCHANGED <<process_btn, workers>>
    ELSE CASE suffix = ".acsm" -> close /\ process_acsm
           [] suffix = ".epub" -> process_epub
           [] OTHER ->
                 /\ reopen(QMessageBox)
                 /\ UNCHANGED <<process_btn, workers>>

\* show_login_dialog after dialog.exec_(); then the caller goes on
show_login_dialog_closed(d, accepted) ==
    /\ IF accepted THEN authorize_adobe
                   ELSE UNCHANGED <<process_btn, workers>>
    /\ IF d.then = "message" THEN reopen(QMessageBox) ELSE close

\* LoginDialog.accept: with an empty field it warns and stays open
accept(d, filled) ==
    IF filled
    THEN show_login_dialog_closed(d, TRUE)
    ELSE /\ open(QMessageBox)
         /\ UNCHANGED <<process_btn, workers>>

\* LoginDialog.reject
reject(d) == show_login_dialog_closed(d, FALSE)

MainIdle == UNCHANGED <<signals, config_dir, start_dir, cwd>>

\* MainWindow.__init__
MainWindowInit ==
    /\ gui_at = "init"
    /\ gui_at' = "running"
    /\ check_authorization("return")
    /\ UNCHANGED workers
    /\ MainIdle
    /\ GuiIdle

\* reauth_btn.clicked
ReauthClicked ==
    /\ gui_at = "running"
    /\ dialogs = <<>>
    /\ show_login_dialog("return")
    /\ UNCHANGED <<gui_at, key_file, process_btn, workers>>
    /\ MainIdle
    /\ GuiIdle

\* process_btn.clicked, which a disabled button does not send
ProcessClicked ==
    /\ gui_at = "running"
    /\ dialogs = <<>>
    /\ process_btn
    /\ process_file
    /\ UNCHANGED <<gui_at, key_file, process_btn, workers>>
    /\ MainIdle
    /\ GuiIdle

\* the innermost open dialog is answered and its handler goes on
Answer ==
    /\ dialogs # <<>>
    /\ LET d == dialogs[Len(dialogs)]
       IN  CASE d.kind = "login" ->
                  \/ \E filled \in BOOLEAN : accept(d, filled)
                  \/ reject(d)
             [] d.kind = "open" ->
                  \E suffix \in Suffixes : process_file_opened(suffix)
             [] d.kind = "save_epub" ->
                  \E output_path \in BOOLEAN :
                      process_epub_saved(output_path)
             [] d.kind = "save_fulfilled" ->
                  \E output_path \in BOOLEAN :
                      on_acsm_fulfilled_saved(d, output_path)
             [] OTHER ->
                  close /\ UNCHANGED <<process_btn, workers>>
    /\ UNCHANGED <<gui_at, key_file>>
    /\ MainIdle
    /\ GuiIdle

\* the event loop, nested or not, takes the next queued finished signal to
\* its slot
Deliver ==
    /\ gui_at = "running"
    /\ signals # <<>>
    /\ signals' = Tail(signals)
    /\ LET s == Head(signals)
           t == workers[s.from].task_type
       IN  CASE t = "login"   -> on_authorization_complete(s.ok)
             [] t = "fulfill" -> on_acsm_fulfilled(s.from, s.ok)
             [] OTHER         -> on_process_complete
    /\ UNCHANGED <<gui_at, config_dir, start_dir, cwd>>
    /\ GuiIdle

----------------------------------------------------------------------------
(* The steps of a worker thread *)

At(i, a) == [workers EXCEPT ![i].at = a]

emit(i, ok) == signals' = Append(signals, [from |-> i, ok |-> ok])

WorkerIdle == UNCHANGED <<gui_at, key_file, process_btn, dialogs>>
SameDirs == UNCHANGED <<config_dir, start_dir>>

\* an exception inside the try block: _fulfill_acsm's handler emits the
\* failure; _login_adobe has none, the exception passes its finally block
\* on the way to run()
Raises(i) ==
    IF workers[i].task_type = "login"
    THEN /\ workers' = [workers EXCEPT ![i].at = "finally",
                                       ![i].raising = TRUE]
         /\ UNCHANGED signals
    ELSE /\ workers' = At(i, "finally")
         /\ emit(i, FALSE)

filename_tmp(i) == F(workers[i].book_name, ".tmp")
filename(i) == F(workers[i].book_name, workers[i].filetype)
tmp_filename(i) == F("tmp_" \o workers[i].book_name, workers[i].filetype)

\* old_cwd = os.getcwd(); raising, it reaches run()'s handler
WorkerGetcwd(i) ==
    /\ workers[i].at = "getcwd"
    /\ \/ /\ workers' = [workers EXCEPT ![i].at = "chdir",
                                        ![i].old_cwd = cwd]
          /\ UNCHANGED signals
       \/ /\ workers' = At(i, "done")
          /\ emit(i, FALSE)
    /\ UNCHANGED cwd
    /\ SameDirs /\ WorkerIdle /\ GuiIdle

\* os.chdir(config_dir)
WorkerChdir(i) ==
    /\ workers[i].at = "chdir"
    /\ \/ /\ cwd' = ConfigDir
          /\ workers' = [workers EXCEPT ![i].at = "body",
                                        ![i].inside = TRUE]
          /\ UNCHANGED signals
       \/ /\ UNCHANGED cwd
          /\ Raises(i)
    /\ SameDirs /\ WorkerIdle /\ GuiIdle

\* login: update_account_path to activateDevice; fulfill: update_account_path
\* to the book name
WorkerBody(i) ==
    /\ workers[i].at = "body"
    /\ \/ /\ workers' = At(i, "finally")
          /\ emit(i, FALSE)
       \/ /\ workers[i].task_type = "login"
          /\ Raises(i)
       \/ /\ workers[i].task_type = "login"
          /\ workers' = At(i, "export")
          /\ UNCHANGED signals
       \/ /\ workers[i].task_type = "fulfill"
          /\ \E b \in Stems :
                workers' = [workers EXCEPT ![i].at = "download",
                                           ![i].book_name = b]
          /\ UNCHANGED signals
    /\ UNCHANGED cwd
    /\ SameDirs /\ WorkerIdle /\ GuiIdle

\* exportAccountEncryptionKeyDER("adobekey.der")
WorkerExport(i) ==
    /\ workers[i].at = "export"
    /\ \/ /\ \E exported \in BOOLEAN :
                IF exported THEN SetCwdDir(Write(CwdDir, KeyFile, KeyBytes))
                            ELSE SameDirs
          /\ workers' = At(i, "success")
          /\ UNCHANGED signals
       \/ /\ Raises(i)
          /\ SameDirs
    /\ UNCHANGED cwd
    /\ WorkerIdle /\ GuiIdle

\* ret = sendHTTPRequest_DL2FILE(download_url, filename_tmp)
WorkerDownload(i) ==
    /\ workers[i].at = "download"
    /\ \/ /\ Raises(i)
          /\ SameDirs
       \/ /\ \E written \in BOOLEAN :
                IF written THEN SetCwdDir(Write(CwdDir, filename_tmp(i), <<>>))
                           ELSE SameDirs
          /\ workers' = At(i, "fail")
          /\ UNCHANGED signals
       \/ /\ \E bytes \in GuiContents :
                SetCwdDir(Write(CwdDir, filename_tmp(i), bytes))
          /\ workers' = At(i, "read")
          /\ UNCHANGED signals
    /\ UNCHANGED cwd
    /\ WorkerIdle /\ GuiIdle

\* open(filename_tmp).read(10) and the file type of what was read
WorkerRead(i) ==
    /\ workers[i].at = "read"
    /\ \/ Raises(i)
       \/ /\ Has(CwdDir, filename_tmp(i))
          /\ workers' =
                [workers EXCEPT
                   ![i].at = "move",
                   ![i].filetype =
                       Classify(ReadPrefix(BytesOf(CwdDir, filename_tmp(i))))]
          /\ UNCHANGED signals
    /\ UNCHANGED cwd
    /\ SameDirs /\ WorkerIdle /\ GuiIdle

\* shutil.move(filename_tmp, filename)
WorkerMove(i) ==
    /\ workers[i].at = "move"
    /\ \/ /\ Raises(i)
          /\ SameDirs
       \/ /\ Has(CwdDir, filename_tmp(i))
          /\ SetCwdDir(Rename(CwdDir, filename_tmp(i), filename(i)))
          /\ workers' = At(i, Branch(workers[i].filetype))
          /\ UNCHANGED signals
    /\ UNCHANGED cwd
    /\ WorkerIdle /\ GuiIdle

\* zf.ZipFile(filename, "a"), which makes the archive where there is none
WorkerZip(i) ==
    /\ workers[i].at = "f_zip"
    /\ \/ /\ Raises(i)
          /\ SameDirs
       \/ /\ SetCwdDir(Write(CwdDir, filename(i),
                            IF Has(CwdDir, filename(i))
                            THEN BytesOf(CwdDir, filename(i))
                            ELSE ZipBytes))
          /\ workers' = At(i, "success")
          /\ UNCHANGED signals
    /\ UNCHANGED cwd
    /\ WorkerIdle /\ GuiIdle

\* the resource of the rights and os.rename(filename, "tmp_" + filename)
WorkerRename(i) ==
    /\ workers[i].at = "f_resource"
    /\ \/ /\ Raises(i)
          /\ SameDirs
       \/ /\ Has(CwdDir, filename(i))
          /\ SetCwdDir(Rename(CwdDir, filename(i), tmp_filename(i)))
          /\ workers' = At(i, "patch")
          /\ UNCHANGED signals
    /\ UNCHANGED cwd
    /\ WorkerIdle /\ GuiIdle

\* ret = patch_drm_into_pdf("tmp_" + filename, ..., filename, resource)
WorkerPatch(i) ==
    /\ workers[i].at = "patch"
    /\ \/ /\ Raises(i)
          /\ SameDirs
       \/ /\ Has(CwdDir, tmp_filename(i))
          /\ \E r \in BOOLEAN :
                /\ IF r THEN SetCwdDir(Write(CwdDir, filename(i), PdfBytes))
                        ELSE SameDirs
                /\ workers' = [workers EXCEPT ![i].at = "remove",
                                              ![i].ret = r]
          /\ UNCHANGED signals
    /\ UNCHANGED cwd
    /\ WorkerIdle /\ GuiIdle

\* os.remove("tmp_" + filename)
WorkerRemove(i) ==
    /\ workers[i].at = "remove"
    /\ \/ /\ Raises(i)
          /\ SameDirs
       \/ /\ Has(CwdDir, tmp_filename(i))
          /\ SetCwdDir(Without(CwdDir, tmp_filename(i)))
          /\ workers' = At(i, IF workers[i].ret THEN "success" ELSE "fail")
          /\ UNCHANGED signals
    /\ UNCHANGED cwd
    /\ WorkerIdle /\ GuiIdle

\* finished.emit(True, ...)
WorkerSuccess(i) ==
    /\ workers[i].at = "success"
    /\ emit(i, TRUE)
    /\ workers' = [workers EXCEPT
                      ![i].at = "finally",
                      ![i].produced = IF workers[i].task_type = "fulfill"
                                      THEN Name(filename(i)) ELSE None]
    /\ UNCHANGED cwd
    /\ SameDirs /\ WorkerIdle /\ GuiIdle

\* finished.emit(False, ...) of a failure that is no exception
WorkerFail(i) ==
    /\ workers[i].at \in {"fail", "f_unsupported"}
    /\ emit(i, FALSE)
    /\ workers' = At(i, "finally")
    /\ UNCHANGED cwd
    /\ SameDirs /\ WorkerIdle /\ GuiIdle

\* finally: os.chdir(old_cwd); raising, or passing an exception on, it
\* reaches run()'s handler
WorkerFinally(i) ==
    /\ workers[i].at = "finally"
    /\ \/ /\ cwd' = workers[i].old_cwd
          /\ workers' = [workers EXCEPT
                            ![i].at = IF workers[i].raising
                                      THEN "run_except" ELSE "done",
                            ![i].inside = FALSE]
       \/ /\ UNCHANGED cwd
          /\ workers' = [workers EXCEPT ![i].at = "run_except",
                                        ![i].inside = FALSE,
                                        ![i].chdir_failed = TRUE]
    /\ UNCHANGED signals
    /\ SameDirs /\ WorkerIdle /\ GuiIdle

\* run(): except Exception
WorkerRunExcept(i) ==
    /\ workers[i].at = "run_except"
    /\ emit(i, FALSE)
    /\ workers' = At(i, "done")
    /\ UNCHANGED cwd
    /\ SameDirs /\ WorkerIdle /\ GuiIdle

\* _decrypt_epub, every path of which ends in one finished.emit
WorkerDecrypt(i) ==
    /\ workers[i].at = "decrypt"
    /\ \E ok \in BOOLEAN : emit(i, ok)
    /\ workers' = At(i, "done")
    /\ UNCHANGED cwd
    /\ SameDirs /\ WorkerIdle /\ GuiIdle

WorkerStep ==
    \E i \in 1 .. Len(workers) :
        \/ WorkerGetcwd(i)
        \/ WorkerChdir(i)
        \/ WorkerBody(i)
        \/ WorkerExport(i)
        \/ WorkerDownload(i)
        \/ WorkerRead(i)
        \/ WorkerMove(i)
        \/ WorkerZip(i)
        \/ WorkerRename(i)
        \/ WorkerPatch(i)
        \/ WorkerRemove(i)
        \/ WorkerSuccess(i)
        \/ WorkerFail(i)
        \/ WorkerFinally(i)
        \/ WorkerRunExcept(i)
        \/ WorkerDecrypt(i)

GuiNext ==
    \/ MainWindowInit
    \/ ReauthClicked
    \/ ProcessClicked
    \/ Answer
    \/ Deliver
    \/ WorkerStep

GuiSpec == GuiInit /\ [][GuiNext]_vars

AllEnded == \A i \in 1 .. Len(workers) : ~Running(i)

GuiTypeOK ==
    /\ gui_at \in {"init", "running"}
    /\ key_file \in {None} \cup {s \o ".der" : s \in KeyStems}
    /\ process_btn \in BOOLEAN
    /\ Len(workers) <= MaxWorkers
    /\ cwd \in {StartDir, ConfigDir}
    /\ \A i \in 1 .. Len(signals) : signals[i].from \in 1 .. Len(workers)
    /\ \A i \in 1 .. Len(dialogs) :
          dialogs[i].kind \in {"login", "open", "save_epub",
                               "save_fulfilled", "message"}

----------------------------------------------------------------------------
(* Observations on a run *)

Done == pc = "done"

\* the terminal signals of the run, in emission order
Terminals == SelectSeq(emitted, LAMBDA n : n.sig = "finished")

Called(c) == \E i \in 1 .. Len(calls) : calls[i] = c

TypeOK ==
    /\ task_type \in TaskTypes
    /\ raised \in BOOLEAN /\ escaped \in BOOLEAN
    /\ cwd \in {StartDir, ConfigDir}
    /\ filetype \in {None, ".epub", ".pdf", ".bin"}

----------------------------------------------------------------------------
(* Properties of WorkerThread.run *)

ParseFailure == Finished(FALSE, Text("Failed to parse fulfillment response"))

\* C1: every run of login, fulfill or decrypt emits exactly one terminal
\* finished signal, whatever the calls of the run return or raise.
C1_ExactlyOneTerminal ==
    Done => Len(Terminals) = 1

\* C2: a run in which some step raised returns normally, no exception leaves
\* run(), and a terminal with success = false has been emitted; no run ends
\* without a terminal.
C2_RaiseBecomesFailure ==
    Done =>
        /\ ~escaped
        /\ Len(Terminals) >= 1
        /\ raised => \E i \in 1 .. Len(Terminals) : ~Terminals[i].ok

\* a login run whose sign-in raised, ended by run()'s handler
C2_Witness ==
    /\ Done
    /\ task_type = "login"
    /\ raised
    /\ Terminals = <<Finished(FALSE, TextS("Error: ", "signIn raised"))>>

\* C3: in fulfill, a reply without the download-URL element or without the
\* license-token element ends the run with the terminal failure "Failed to
\* parse fulfillment response", and neither the rights builder nor the
\* download is invoked for it.
C3_MissingElementFailsParse ==
    (/\ Done
     /\ task_type = "fulfill"
     /\ reply.wellformed
     /\ (reply.src = "absent" \/ reply.token = "absent"))
    => /\ Terminals[1] = ParseFailure
       /\ ~Called("buildRights")
       /\ ~Called("download")

\* C4: in fulfill, a download that returns a status other than 200 ends the
\* run with a terminal failure carrying that status, and the run performs no
\* classification, rename, archive mutation or patch.
C4_DownloadStatusFailure ==
    (Called("download") /\ ret \in Statuses \ {HttpOk})
    => /\ pc \in {"f_finally", "run_except", "done"}
       /\ Len(Terminals) >= 1
       /\ Terminals[1] = Finished(FALSE, TextN("Download failed with error ", ret))
       /\ \A i \in 1 .. Len(Terminals) : ~Terminals[i].ok
       /\ \A c \in {"read", "classify", "move", "zip_append", "rename", "patch", "remove"} :
             ~Called(c)
       /\ filetype = None

\* a run ended by a download that returned 404
C4_Witness ==
    /\ Done
    /\ ret = 404
    /\ Terminals = <<Finished(FALSE, TextN("Download failed with error ", 404))>>

\* C5: in the document branch of fulfill, tmp_<title>.pdf no longer exists
\* when the run ends, whether the patch returned true, returned false or
\* raised, and the terminal is success exactly when the patch returned true.
C5_TmpCopyRemoved ==
    (Done /\ Called("patch"))
    => /\ TmpCopy \notin DOMAIN files
       /\ Terminals[1].ok = patch_ret

\* C6: in the container branch of fulfill the archive is mutated by
\* appending one entry, META-INF/rights.xml holding the built rights
\* document: every entry of the downloaded archive keeps its place and its
\* bytes, no other file changes, the archive is not touched again before the
\* run ends, and a run of this branch in which no call raises ends with the
\* terminal success.
C6_ArchiveAppendOnly ==
    /\ [][(pc = "f_zip" /\ pc' = "f_finally") =>
            LET old == files[Filename].entries
                new == files'[Filename].entries
            IN  /\ Len(new) = Len(old) + 1
                /\ \A i \in 1 .. Len(old) : new[i] = old[i]
                /\ new[Len(new)] = Entry(RightsEntryName, rights_xml_str)
                /\ files'[Filename].bytes = files[Filename].bytes
                /\ DOMAIN files' = DOMAIN files
                /\ \A n \in DOMAIN files \ {Filename} : files'[n] = files[n]]_vars
    /\ [][(pc \in {"f_finally", "run_except"}) => files' = files]_vars
    /\ [](Done /\ filetype = ".epub" /\ ~raised =>
            /\ Called("zip_append")
            /\ Terminals = <<Finished(TRUE, TextS("Successfully fulfilled: ", Filename))>>)

\* a finished container run on an archive that already held a rights entry:
\* the old entry is still the second one, the new one is the third
C6_Witness ==
    /\ Done
    /\ filetype = ".epub"
    /\ Filename \in DOMAIN files
    /\ Len(files[Filename].entries) = 3
    /\ files[Filename].entries[2] = Entry(RightsEntryName, "old")
    /\ files[Filename].entries[3] = Entry(RightsEntryName, rights_xml_str)
    /\ Terminals = <<Finished(TRUE, TextS("Successfully fulfilled: ", Filename))>>

\* C7: the decrypt workflow maps every result code of decryptBook to exactly
\* one terminal: 0 to success, 1 to the DRM-free failure, 2 to the wrong-key
\* failure, any other value to a failure carrying the code.
C7_ResultMappingTotal ==
    (Done /\ Called("decryptBook") /\ ~raised)
    => /\ Len(Terminals) = 1
       /\ Terminals[1].ok = (result = 0)
       /\ result = 1 => Terminals[1].msg = Text("EPUB is DRM-free")
       /\ result = 2 => Terminals[1].msg = Text("Failed to decrypt: wrong key")
       /\ result \notin {0, 1, 2} =>
             /\ Terminals[1].msg.text = "Decryption failed with error code "
             /\ Terminals[1].msg.code = result

\* a decrypt run whose decryptBook returned a negative code
C7_Witness ==
    /\ Done
    /\ Called("decryptBook")
    /\ result < 0
    /\ Terminals = <<Finished(FALSE, TextN("Decryption failed with error code ", result))>>

\* C8: when reading the key file fails, the decrypt run ends with the
\* terminal failure "Failed to read key file: ..." and decryptBook is never
\* invoked.
C8_KeyReadFailure ==
    (Called("read_key") /\ userkey = None)
    => /\ Done
       /\ Terminals = <<Finished(FALSE, TextS("Failed to read key file: ", "OSError"))>>
       /\ ~Called("decryptBook")

\* a decrypt run ended by the failed key read
C8_Witness ==
    /\ Done
    /\ task_type = "decrypt"
    /\ calls = <<"read_key">>
    /\ userkey = None
    /\ ~Terminals[1].ok

\* C9: the file type depends on the leading bytes of the content only:
\* "PK" first gives .epub, "%PDF" first gives .pdf, anything else, a content
\* shorter than the signature included, gives .bin.
C9_ClassifyByPrefix ==
    Called("classify") =>
        LET b == book_content
            isPK  == Len(b) >= 2 /\ b[1] = "P" /\ b[2] = "K"
            isPDF == Len(b) >= 4 /\ b[1] = "%" /\ b[2] = "P" /\ b[3] = "D" /\ b[4] = "F"
        IN  /\ isPK => filetype = ".epub"
            /\ isPDF => filetype = ".pdf"
            /\ ~isPK /\ ~isPDF => filetype = ".bin"
            /\ \A n \in DOMAIN files :          \* b is what was read of the file
                  /\ Len(b) <= Len(files[n].bytes)
                  /\ \A i \in 1 .. Len(b) : b[i] = files[n].bytes[i]
                  /\ Len(b) = Len(files[n].bytes) \/ Len(b) = ReadSize

\* a signature cut short ("%PD") is classified unknown
C9_Witness ==
    /\ Called("classify")
    /\ book_content = <<"%", "P", "D">>
    /\ filetype = ".bin"

\* C10: title extraction never fails the run: whatever the shape of the
\* reply's metadata, a run that built the rights document goes on to the
\* download, and with the metadata or the title element absent the title is
\* the placeholder "Book".
C10_TitleBestEffort ==
    (Done /\ rights_xml_str.built)
    => /\ Called("download")
       /\ reply.metadata \in {"absent", "notitle"} => book_name = "Book"

\* C11: content classified unknown ends fulfill with the terminal failure
\* "Unsupported file type" (in a run in which no call raises), and such a
\* run never reaches the archive mutation or the document patch.
C11_UnknownIsUnsupported ==
    filetype = ".bin" =>
        /\ \A c \in {"zip_append", "rename", "patch", "remove"} : ~Called(c)
        /\ pc \notin {"f_zip", "f_resource", "f_rename", "f_patch", "f_remove", "f_pdf_finish"}
        /\ \A i \in 1 .. Len(Terminals) : ~Terminals[i].ok
        /\ (Done /\ ~raised) => Terminals = <<Finished(FALSE, Text("Unsupported file type"))>>

\* a finished run on a content that is neither signature
C11_Witness ==
    /\ Done
    /\ book_content = <<"K", "P">>
    /\ filetype = ".bin"
    /\ Filename \in DOMAIN files
    /\ Terminals = <<Finished(FALSE, Text("Unsupported file type"))>>

\* the position of the first terminal among the emitted signals (0: none)
FirstTerminal ==
    IF \E i \in 1 .. Len(emitted) : emitted[i].sig = "finished"
    THEN CHOOSE i \in 1 .. Len(emitted) :
            /\ emitted[i].sig = "finished"
            /\ \A j \in 1 .. i - 1 : emitted[j].sig # "finished"
    ELSE 0

\* C12: within a run no progress signal follows a terminal, the last signal
\* of a finished run is a terminal, and signals once emitted stay emitted
\* in their order.
C12_TerminalIsLast ==
    /\ [](FirstTerminal # 0 =>
            \A j \in FirstTerminal .. Len(emitted) : emitted[j].sig = "finished")
    /\ [](Done => Len(emitted) >= 1 /\ emitted[Len(emitted)].sig = "finished")
    /\ [][/\ Len(emitted') >= Len(emitted)
          /\ SubSeq(emitted', 1, Len(emitted)) = emitted]_vars

\* a fulfill run that failed at the download, its three progress messages
\* still in place before the terminal
C12_Witness ==
    /\ Done
    /\ task_type = "fulfill"
    /\ Len(emitted) = 4
    /\ emitted[3] = Progress(Text("Downloading book..."))
    /\ emitted[4] = Finished(FALSE, TextN("Download failed with error ", 500))

\* the position of call c in the run (0: not called)
CallIndex(c) ==
    IF Called(c) THEN CHOOSE i \in 1 .. Len(calls) : calls[i] = c ELSE 0

\* C13: fulfill sequences its steps: the download is called only after the
\* rights builder returned a document (a null result ends the run with
\* "Failed to build rights.xml" and no download), the rename of the
\* temporary file only after the download returned 200, and the archive
\* append or the document patch only after the rights document is built and
\* the rename is done.
C13_StepsSequenced ==
    /\ Called("download") =>
          /\ rights_xml_str.built
          /\ 0 < CallIndex("buildRights") /\ CallIndex("buildRights") < CallIndex("download")
    /\ (Called("buildRights") /\ ~rights_xml_str.built) => ~Called("download")
    /\ (Called("buildRights") /\ ~rights_xml_str.built /\ ~raised) =>
          /\ pc \in {"f_finally", "done"}
          /\ Terminals = <<Finished(FALSE, Text("Failed to build rights.xml"))>>
    /\ Called("move") =>
          /\ ret = HttpOk
          /\ CallIndex("download") < CallIndex("move")
    /\ (Called("zip_append") \/ Called("patch")) =>
          /\ rights_xml_str.built
          /\ CallIndex("move") < CallIndex(IF Called("patch") THEN "patch" ELSE "zip_append")
          /\ FilenameTmp \notin DOMAIN files

\* a run ended by the rights builder returning None, with no download
C13_Witness ==
    /\ Done
    /\ Called("buildRights")
    /\ license_token_node # None
    /\ ~rights_xml_str.built
    /\ ~Called("download")
    /\ Terminals = <<Finished(FALSE, Text("Failed to build rights.xml"))>>

\* the provisioning steps of _login_adobe, in their order
ProvisionOrder ==
    <<"createDeviceFile", "createUser", "signIn", "activateDevice",
      "exportAccountEncryptionKeyDER">>

\* the provisioning steps called so far in this run
ProvisionCalls ==
    SelectSeq(calls, LAMBDA c : \E i \in 1 .. Len(ProvisionOrder) : ProvisionOrder[i] = c)

\* C19: login runs its provisioning steps in the order device file, user,
\* sign-in, activation, key export; the first failing step ends the run with
\* a terminal failure and no later step runs; a terminal success is emitted
\* only after all five, so that it implies the key material was exported.
C19_LoginSuccessMeansKeyExported ==
    task_type = "login" =>
        /\ Len(ProvisionCalls) <= Len(ProvisionOrder)
        /\ ProvisionCalls = SubSeq(ProvisionOrder, 1, Len(ProvisionCalls))
        /\ Len(Terminals) >= 1 => pc \in {"l_finally", "run_except", "done"}
        /\ (\E i \in 1 .. Len(Terminals) : Terminals[i].ok) =>
              /\ ProvisionCalls = ProvisionOrder
              /\ KeyFilename \in DOMAIN files

----------------------------------------------------------------------------
(* MainWindow and its workers *)

\* C14: at most one run at a time is between its chdir into the
\* configuration directory and its chdir back, in every interleaving of the
\* workers MainWindow starts.
C14_ChdirCriticalSection ==
    Cardinality({i \in 1 .. Len(workers) : InConfigDir(i)}) <= 1

\* C15: once every login and fulfill run has ended, each having changed back
\* to the directory it found when it started (no os.chdir(old_cwd) raised),
\* the process is in the directory it was in before the first run began.
C15_CwdRestored ==
    (/\ gui_at = "running"
     /\ AllEnded
     /\ \A i \in 1 .. Len(workers) : ~workers[i].chdir_failed)
        => cwd = StartDir

\* C16: whatever the user clicks and whichever worker completes, MainWindow
\* starts a new WorkerThread only when no worker started before is still
\* running.
C16_OneWorkerAtATime ==
    [][Len(workers') > Len(workers) => AllEnded]_vars

\* C17: when no worker is running, every finished signal has reached its
\* slot, every handler has returned and key_file is set, the Process File
\* button is enabled.
C17_ProcessEnabledWhenIdle ==
    (/\ gui_at = "running"
     /\ AllEnded
     /\ signals = <<>>
     /\ dialogs = <<>>
     /\ key_file # None) => process_btn

\* C18: the decrypt worker that on_acsm_fulfilled starts after a successful
\* fulfill run is handed the file that this fulfill run produced.
C18_DecryptGetsFulfilledFile ==
    \A i \in 1 .. Len(workers) :
        workers[i].from # 0 =>
            workers[i].path = workers[workers[i].from].produced

====
